---- MODULE Spec2Model ----
(***************************************************************************)
(* The layout engine of the Steam game collage page (pages/index.tsx).     *)
(*                                                                         *)
(* Two versions of the page are modelled, selected by `variant`:           *)
(*   "tiered"  - layoutGames with discrete size tiers, a free-rectangle    *)
(*               primary pass and the shelf fill-in pass (lines 147-420);  *)
(*   "bestfit" - layoutGames with the linear-area size model and the       *)
(*               best-area-fit packer (lines 1387-1466).                   *)
(* The page is rendered twice from the same props (on the server and at    *)
(* hydration in the browser), so layoutGames is evaluated twice: `run`.    *)
(*                                                                         *)
(* Numbers: the source computes in IEEE doubles.  The model computes the   *)
(* same quantities in exact arithmetic on integers: a square root followed *)
(* by floor or round is stated as the equivalent integer inequality.       *)
(* Rectangles are compared by value where the source compares object       *)
(* identity (indexOf); the two agree as long as freeRects holds no two     *)
(* equal rectangles, which TilingInv implies.                              *)
(***************************************************************************)
EXTENDS Integers, Sequences, FiniteSets, TLC

VARIABLES
    initialGames,      \* props.initialGames: sequence of SteamGame
    variant,           \* which version of layoutGames the page runs
    run,               \* 1: server render, 2: hydration render
    pc,                \* position inside layoutGames
    canvasDimensions,  \* useMemo(calculateCanvasDimensions(initialGames.length))
    baseUnitWidth,     \* tiered: quantised base unit
    baseUnitHeight,
    freeRects,         \* sequence of Rect
    remainingDesc,     \* items in processing order (tiered: remainingDesc, bestfit: items)
    cursor,            \* index of the next item of remainingDesc
    overflow,          \* tiered: overflow, sorted into remainingAsc by the fill-in pass
    fillQueue,         \* tiered: freeRects.slice() still to be handed to fillRectWithShelf
    results,           \* the LayoutGame list being built / returned
    firstResults,      \* what run 1 returned (the server-rendered layout)
    gameCountArg,      \* calculateCanvasDimensions: its argument
    canvasResult,      \* calculateCanvasDimensions: what it returned
    settledResults,    \* getServerSideProps: results of Promise.allSettled, one per account
    accountIdx,        \* getServerSideProps: idx of the forEach over the results
    aggregated,        \* getServerSideProps: the values of the Map, in insertion order
    fetchErrors,       \* getServerSideProps: one message per rejected account
    fetchRetries,      \* fetchJsonWithRetry: options.retries
    attempt,           \* fetchJsonWithRetry: the loop counter
    lastError,         \* fetchJsonWithRetry: the error caught last
    fetchLog,          \* fetchJsonWithRetry: what each fetch made so far came to
    fetchOutcome,      \* fetchJsonWithRetry: how the returned promise settled
    pruneInput,        \* pruneFreeRects on its own: freeRects before the call
    pruneOutput,       \* pruneFreeRects on its own: freeRects after the call
    tierPlaytime,      \* tier multiplier on its own: game.playtime_forever
    tierListMax,       \* tier multiplier on its own: largest playtime of the list
    tierMult,          \* tier multiplier on its own: mult
    jitterItems,       \* remainingDesc sort on its own: prepared
    jitterOrder,       \* remainingDesc sort on its own: remainingDesc
    unitGameCount,     \* base unit on its own: initialGames.length
    unitTotalUnits,    \* base unit on its own: totalUnits
    unitMaxMult,       \* base unit on its own: maxMult
    unitSize,          \* base unit on its own: baseUnitWidth and baseUnitHeight
    unitTarget,        \* base unit on its own: what chooseBestRect returns for the first item
    probeGames,        \* achievement probing: aggregatedGames.length
    probeAccounts,     \* achievement probing: resolvedPairs.length
    probeFull,         \* achievement probing: the (appid, account) pairs checkFull finds complete
    probeTasks,        \* achievement probing: tasks
    taskIdx,           \* achievement probing: i
    issued,            \* achievement probing: issued
    lastBatch,         \* achievement probing: length of the batch issued last
    seenApps,          \* achievement probing: seenApps
    goldSet,           \* achievement probing: goldSet
    drawRuns,          \* draw effect: the runs of the effect so far, each with its isCancelled, entries, loadedCount and the await it is at
    imageStatus,       \* component state imageStatus
    isDrawing,         \* component state isDrawing
    previewImage,      \* component state previewImage
    staleUpdates       \* draw effect: the component state a run has updated after its cancellation

\* the state of the page component (HomePage)
layoutVars == <<initialGames, variant, run, pc, canvasDimensions, baseUnitWidth,
                baseUnitHeight, freeRects, remainingDesc, cursor, overflow,
                fillQueue, results, firstResults>>

\* the state of a call of calculateCanvasDimensions on its own
canvasVars == <<gameCountArg, canvasResult>>

\* the state of the aggregation in getServerSideProps
aggVars == <<settledResults, accountIdx, aggregated, fetchErrors>>

\* the state of a call of fetchJsonWithRetry
fetchVars == <<fetchRetries, attempt, lastError, fetchLog, fetchOutcome>>

\* the state of a call of pruneFreeRects on its own
pruneVars == <<pruneInput, pruneOutput>>

\* the state of one evaluation of the tier multiplier
tierVars == <<tierPlaytime, tierListMax, tierMult>>

\* the state of the remainingDesc sort on its own
jitterVars == <<jitterItems, jitterOrder>>

\* the state of one computation of the base unit
unitVars == <<unitGameCount, unitTotalUnits, unitMaxMult, unitSize, unitTarget>>

\* the state of the achievement probing of getServerSideProps
probeVars == <<probeGames, probeAccounts, probeFull, probeTasks, taskIdx, issued, lastBatch, seenApps, goldSet>>

\* the state of the draw effect of HomePage
drawVars == <<drawRuns, imageStatus, isDrawing, previewImage, staleUpdates>>

\* the state of the functions and handlers modelled on their own
auxVars == <<pruneVars, tierVars, jitterVars, unitVars, probeVars, drawVars>>

\* everything outside the page component
nonLayoutVars == <<canvasVars, aggVars, fetchVars, auxVars>>

vars == <<layoutVars, nonLayoutVars>>

----------------------------------------------------------------------------
(* Bounds of the model *)

\* largest number of games in initialGames
MaxGames == 5

\* largest game count handed to calculateCanvasDimensions on its own
MaxCount == 700

\* largest number of rectangles handed to pruneFreeRects on its own
MaxRects == 3

\* the playtimes offered to the tier multiplier on its own reach
\* MaxTierSteps times ten hours
MaxTierSteps == 40

\* largest number of items handed to the remainingDesc sort on its own
MaxJitterItems == 3

\* largest number of games for which the base unit is computed on its own
MaxUnitGames == 700

\* largest number of games and of resolved accounts of the achievement probing
MaxProbeGames == 51
MaxProbeAccounts == 5

\* largest number of games of a rendered layout, and of renders of the page
MaxDrawGames == 11
MaxRenders == 2

\* largest number of accounts getServerSideProps queries
MaxAccounts == 3

\* largest options.retries handed to fetchJsonWithRetry
MaxRetries == 3

\* appids of the modelled catalogue
AppIds == 1 .. MaxGames

\* playtimes (minutes) offered to the tiered version: zero, just below and at
\* the 10 hour threshold, and two larger values
TieredPlaytimes == {0, 599, 600, 2400}

\* the linear-area version sizes a game sqrt(0.3 p) high: the playtimes
\* 30 k^2 are those with integer sides (2k wide, 3k high)
LinearRoots == {0, 100, 200, 300}
LinearPlaytimes == {30 * k * k : k \in LinearRoots}

----------------------------------------------------------------------------
(* Arithmetic helpers *)

Max(a, b) == IF a >= b THEN a ELSE b
Min(a, b) == IF a <= b THEN a ELSE b

\* Math.floor(Math.sqrt(n)) for an integer n >= 0
\* (by bisection: lo * lo <= n < hi * hi)
RECURSIVE FloorSqrtBetween(_, _, _)
FloorSqrtBetween(n, lo, hi) ==
    IF hi - lo <= 1 THEN lo
    ELSE LET mid == (lo + hi) \div 2
         IN IF mid * mid <= n
            THEN FloorSqrtBetween(n, mid, hi)
            ELSE FloorSqrtBetween(n, lo, mid)
FloorSqrt(n) == FloorSqrtBetween(n, 0, Min(n, 46340) + 1)

\* Math.sqrt(n) for a perfect square n (no value otherwise)
ExactSqrt(n) == CHOOSE r \in {FloorSqrt(n)} : r * r = n

\* Math.round(Math.sqrt(num / den)): Math.round rounds halves up, so the
\* result is the largest k >= 0 with k - 1/2 <= sqrt(num/den), that is
\* (2k - 1)^2 <= 4 num / den, that is (2k - 1)^2 <= floor(4 num / den).
\* The quotient is taken in two parts to stay within 32-bit integers.
RoundSqrt(num, den) ==
    (FloorSqrt(4 * (num \div den) + (4 * (num % den)) \div den) + 1) \div 2

RECURSIVE SumSeq(_)
SumSeq(s) == IF s = <<>> THEN 0 ELSE Head(s) + SumSeq(Tail(s))

RECURSIVE MaxSeq(_, _)
MaxSeq(s, m) == IF s = <<>> THEN m ELSE MaxSeq(Tail(s), Max(m, Head(s)))

RECURSIVE MinSeq(_, _)
MinSeq(s, m) == IF s = <<>> THEN m ELSE MinSeq(Tail(s), Min(m, Head(s)))

\* Array.prototype.sort with a comparator that orders by an integer key,
\* ascending.  The sort is stable: elements with equal keys keep their input
\* order.  `keys` is the sequence of the keys of `s`, position by position.
RECURSIVE InsertSorted(_, _)
InsertSorted(s, e) ==
    IF s = <<>> THEN <<e>>
    ELSE IF e.key < Head(s).key THEN <<e>> \o s
    ELSE <<Head(s)>> \o InsertSorted(Tail(s), e)

RECURSIVE StableSortFrom(_, _)
StableSortFrom(s, acc) ==
    IF s = <<>> THEN acc
    ELSE StableSortFrom(Tail(s), InsertSorted(acc, Head(s)))

SortByKey(s, keys) ==
    LET tagged == [i \in 1 .. Len(s) |-> [key |-> keys[i], val |-> s[i]]]
        sorted == StableSortFrom(tagged, <<>>)
    IN [i \in 1 .. Len(s) |-> sorted[i].val]

\* array.splice(i, 1)
RemoveAt(s, i) == SubSeq(s, 1, i - 1) \o SubSeq(s, i + 1, Len(s))

\* array.indexOf(e), 0 when absent
IndexOf(s, e) ==
    IF \E i \in 1 .. Len(s) : s[i] = e
    THEN CHOOSE i \in 1 .. Len(s) : s[i] = e /\ \A j \in 1 .. i - 1 : s[j] /= e
    ELSE 0

----------------------------------------------------------------------------
(* calculateCanvasDimensions *)

CanvasBaseWidth == 1080
CanvasBaseHeight == 1920
CanvasMaxWidth == 4320
CanvasMaxHeight == 7680
AdditionalAreaPerGame == 50000
CanvasFreeGames == 10
CanvasGrid == 100

\* (mutant) without the early return for an empty list
CalculateCanvasDimensionsNoDefault(gameCount) ==
    LET totalArea == CanvasBaseWidth * CanvasBaseHeight +
            (IF gameCount > CanvasFreeGames
             THEN (gameCount - CanvasFreeGames) * AdditionalAreaPerGame ELSE 0)
        roundW == RoundSqrt(9 * totalArea, 16 * CanvasGrid * CanvasGrid)
        roundH == RoundSqrt(16 * totalArea, 9 * CanvasGrid * CanvasGrid)
    IN [width  |-> Max(CanvasBaseWidth, Min(CanvasMaxWidth, roundW * CanvasGrid)),
        height |-> Max(CanvasBaseHeight, Min(CanvasMaxHeight, roundH * CanvasGrid))]

\* (mutant) the result not clamped from above
CalculateCanvasDimensionsUnclamped(gameCount) ==
    IF gameCount = 0 THEN [width |-> CanvasBaseWidth, height |-> CanvasBaseHeight]
    ELSE
      LET totalArea == CanvasBaseWidth * CanvasBaseHeight +
              (IF gameCount > CanvasFreeGames
               THEN (gameCount - CanvasFreeGames) * AdditionalAreaPerGame ELSE 0)
          roundW == RoundSqrt(9 * totalArea, 16 * CanvasGrid * CanvasGrid)
          roundH == RoundSqrt(16 * totalArea, 9 * CanvasGrid * CanvasGrid)
      IN [width  |-> Max(CanvasBaseWidth, roundW * CanvasGrid),
          height |-> Max(CanvasBaseHeight, roundH * CanvasGrid)]

\* (mutant) the area per additional game subtracted instead of added
CalculateCanvasDimensionsShrinking(gameCount) ==
    IF gameCount = 0 THEN [width |-> CanvasBaseWidth, height |-> CanvasBaseHeight]
    ELSE
      LET totalArea == CanvasBaseWidth * CanvasBaseHeight -
              (IF gameCount > CanvasFreeGames
               THEN (gameCount - CanvasFreeGames) * AdditionalAreaPerGame ELSE 0)
          roundW == RoundSqrt(9 * totalArea, 16 * CanvasGrid * CanvasGrid)
          roundH == RoundSqrt(16 * totalArea, 9 * CanvasGrid * CanvasGrid)
      IN [width  |-> Max(CanvasBaseWidth, Min(CanvasMaxWidth, roundW * CanvasGrid)),
          height |-> Max(CanvasBaseHeight, Min(CanvasMaxHeight, roundH * CanvasGrid))]

\* (mutant) rounded to whole pixels instead of to the grid of 100
CalculateCanvasDimensionsNoGrid(gameCount) ==
    IF gameCount = 0 THEN [width |-> CanvasBaseWidth, height |-> CanvasBaseHeight]
    ELSE
      LET totalArea == CanvasBaseWidth * CanvasBaseHeight +
              (IF gameCount > CanvasFreeGames
               THEN (gameCount - CanvasFreeGames) * AdditionalAreaPerGame ELSE 0)
          roundW == RoundSqrt(9 * totalArea, 16)
          roundH == RoundSqrt(16 * totalArea, 9)
      IN [width  |-> Max(CanvasBaseWidth, Min(CanvasMaxWidth, roundW)),
          height |-> Max(CanvasBaseHeight, Min(CanvasMaxHeight, roundH))]

\* width = sqrt(totalArea * 9/16), height = width / (9/16) = sqrt(totalArea * 16/9);
\* Math.round(width / 100) = round(sqrt(9 totalArea / 160000)),
\* Math.round(height / 100) = round(sqrt(16 totalArea / 90000))
CalculateCanvasDimensions(gameCount) ==
    IF gameCount = 0 THEN [width |-> CanvasBaseWidth, height |-> CanvasBaseHeight]
    ELSE
      LET baseArea == CanvasBaseWidth * CanvasBaseHeight
          totalArea == baseArea +
              (IF gameCount > CanvasFreeGames
               THEN (gameCount - CanvasFreeGames) * AdditionalAreaPerGame ELSE 0)
          roundW == RoundSqrt(9 * totalArea, 16 * CanvasGrid * CanvasGrid)
          roundH == RoundSqrt(16 * totalArea, 9 * CanvasGrid * CanvasGrid)
      IN [width  |-> Max(CanvasBaseWidth, Min(CanvasMaxWidth, roundW * CanvasGrid)),
          height |-> Max(CanvasBaseHeight, Min(CanvasMaxHeight, roundH * CanvasGrid))]

----------------------------------------------------------------------------
(* Records *)

\* the catalogue name of an appid (the "name" field of a SteamGame)
GameName(appid) == <<"Dota", "Portal", "Hades", "Celeste", "Factorio", "Terraria", "Rimworld", "Braid">>[appid]

SteamGame(appid, playtime) ==
    [appid |-> appid, name |-> GameName(appid), playtime_forever |-> playtime]

Rect(x, y, w, h) == [x |-> x, y |-> y, width |-> w, height |-> h]

\* (mutant) the playtime clamped as in the size model
LayoutGameClamped(game, r) ==
    [appid |-> game.appid, name |-> game.name,
     playtime_forever |-> IF game.playtime_forever >= 1 THEN game.playtime_forever ELSE 1,
     x |-> r.x, y |-> r.y, width |-> r.width, height |-> r.height]

\* { ...game, x, y, width, height, albumUrl }: albumUrl is buildAlbumUrl(appid),
\* a function of the appid, and is not carried
LayoutGame(game, r) ==
    [appid |-> game.appid, name |-> game.name, playtime_forever |-> game.playtime_forever,
     x |-> r.x, y |-> r.y, width |-> r.width, height |-> r.height]

----------------------------------------------------------------------------
(* The tiered size model (lines 152-226) *)

TIER_MAX == 8
TenHours == 600

\* (mutant) without mult = Math.max(mult, 2) for ten hours and more
TierMultNoFloor(playtime, maxTime) ==
    LET rounded == RoundSqrt(TIER_MAX * TIER_MAX * Max(playtime, 1), maxTime)
        mult == Max(1, rounded)
    IN IF playtime >= TenHours THEN mult ELSE 1

\* (mutant) the 10 hour test inverted
TierMultInverted(playtime, maxTime) ==
    LET rounded == RoundSqrt(TIER_MAX * TIER_MAX * Max(playtime, 1), maxTime)
        mult == Max(1, rounded)
    IN IF playtime < TenHours THEN Max(mult, 2) ELSE 1

\* mult of one game: Math.max(1, Math.round(sqrt(max(p,1)) / sqrt(maxTime) * TIER_MAX)),
\* then at least 2 for hours >= 10 and exactly 1 below
TierMult(playtime, maxTime) ==
    LET rounded == RoundSqrt(TIER_MAX * TIER_MAX * Max(playtime, 1), maxTime)
        mult == Max(1, rounded)
    IN IF playtime >= TenHours THEN Max(mult, 2) ELSE 1

\* sorted / baseList: [...initialGames].sort(by playtime descending)
BaseList(games) ==
    SortByKey(games, [i \in 1 .. Len(games) |-> 0 - games[i].playtime_forever])

\* items: { game, mult } sorted by playtime descending, then mult descending
Items(games) ==
    LET baseList == BaseList(games)
        times == [i \in 1 .. Len(baseList) |-> Max(baseList[i].playtime_forever, 1)]
        maxTime == MaxSeq(times, 1)
        mapped == [i \in 1 .. Len(baseList) |->
                     [game |-> baseList[i],
                      mult |-> TierMult(baseList[i].playtime_forever, maxTime)]]
    IN SortByKey(mapped,
          [i \in 1 .. Len(mapped) |->
              0 - (mapped[i].game.playtime_forever * (TIER_MAX + 1) + mapped[i].mult)])

TotalUnits(items) == SumSeq([i \in 1 .. Len(items) |-> items[i].mult * items[i].mult])

MaxMult(items) ==
    IF Len(items) > 0 THEN MaxSeq([i \in 1 .. Len(items) |-> items[i].mult], 0) ELSE 1

\* (mutant) without the scale-down of lines 200-204
GridColsOfUnscaled(totalUnits, maxMult, W, H) ==
    LET T == Max(totalUnits, 1)
        cols == IF 2 * W * H < 3 * T THEN W ELSE FloorSqrt((3 * T * W) \div (2 * H))
    IN Max(1, cols)

\* gridCols = max(1, floor(W / max(baseUnitWidth, 1))) where, with T = max(totalUnits, 1),
\*   baseUnitWidth = sqrt(2 W H / (3 T))        (ASPECT_RATIO 2/3)
\*   scaled down to W / maxMult when maxMult * baseUnitWidth > W,
\*   that is when 2 maxMult^2 H > 3 T W.
GridColsOf(totalUnits, maxMult, W, H) ==
    LET T == Max(totalUnits, 1)
        scaled == 2 * maxMult * maxMult * H > 3 * T * W
        cols == IF scaled
                THEN (IF W < maxMult THEN W ELSE maxMult)
                ELSE (IF 2 * W * H < 3 * T THEN W ELSE FloorSqrt((3 * T * W) \div (2 * H)))
    IN Max(1, cols)

GridCols(items, W, H) == GridColsOf(TotalUnits(items), MaxMult(items), W, H)

\* baseUnitWidth = max(1, floor(W / gridCols))
QuantisedUnitWidthOf(totalUnits, maxMult, W, H) ==
    Max(1, W \div GridColsOf(totalUnits, maxMult, W, H))

QuantisedUnitWidth(items, W, H) == Max(1, W \div GridCols(items, W, H))

\* baseUnitHeight = max(1, round(baseUnitWidth / (2/3))): halves round up
QuantisedUnitHeight(unitWidth) == Max(1, (3 * unitWidth + 1) \div 2)

HeaderMin == 60
HeaderMax == 100

\* (mutant) 6% of the height without the upper limit of 100
HeaderInfoHeightUncapped(H) == Max(HeaderMin, (6 * H + 50) \div 100)

\* headerInfoHeight = max(60, round(min(H * 0.06, 100)))
HeaderInfoHeight(H) ==
    Max(HeaderMin, IF 6 * H >= 100 * HeaderMax THEN HeaderMax ELSE (6 * H + 50) \div 100)

\* drawCollage, line 503: the height of the header bar it paints at the top
\* of the canvas, from canvas.height = canvasDimensions.height
HeaderBarHeight(canvasHeight) ==
    Max(60, IF 6 * canvasHeight >= 100 * 100 THEN 100
            ELSE (6 * canvasHeight + 50) \div 100)

\* (mutant) a jitter drawn anew by every render
RndPerRender(appid) ==
    LET table == <<930388, 682116, 430294, 997586, 301088, 776843, 870632, 138538>>
    IN IF run = 1 THEN table[appid] ELSE 1000000 - table[appid]

\* rnd = |sin(appid * 1337.123)|, in millionths, of the appids of the catalogue
Rnd(appid) ==
    IF appid = 0 THEN 0
    ELSE <<930388, 682116, 430294, 997586, 301088, 776843, 870632, 138538>>[appid]

\* prepared: items with their sizes and jitter
Prepared(items, unitWidth, unitHeight) ==
    [i \in 1 .. Len(items) |->
        [game |-> items[i].game, mult |-> items[i].mult,
         width |-> items[i].mult * unitWidth,
         height |-> items[i].mult * unitHeight,
         rnd |-> Rnd(items[i].game.appid)]]

\* (mutant) RANDOM_JITTER = 2 instead of 0.2
RemainingDescStrongJitter(prepared) ==
    SortByKey(prepared,
        [i \in 1 .. Len(prepared) |->
            (0 - prepared[i].mult) * 500000 + (prepared[i].rnd - 500000)])

\* (mutant) the order by the jitter alone, the tier left out of the key
RemainingDescJitterOnly(prepared) ==
    SortByKey(prepared,
        [i \in 1 .. Len(prepared) |-> prepared[i].rnd - 500000])

\* remainingDesc: sorted by -mult + (rnd - 0.5) * RANDOM_JITTER with
\* RANDOM_JITTER = 0.2; the key is that score times 5 000 000
RemainingDesc(prepared) ==
    SortByKey(prepared,
        [i \in 1 .. Len(prepared) |->
            (0 - prepared[i].mult) * 5000000 + (prepared[i].rnd - 500000)])

----------------------------------------------------------------------------
(* The free-rectangle bookkeeping of the tiered packer (lines 228-294) *)

Area(r) == r.width * r.height

\* contains(a, b): b lies inside a
Contains(a, b) ==
    /\ a.x <= b.x
    /\ a.y <= b.y
    /\ a.x + a.width >= b.x + b.width
    /\ a.y + a.height >= b.y + b.height

\* (mutant) the test i === j left out: a rectangle is compared with itself
RECURSIVE PruneFromNoSkip(_, _)
PruneFromNoSkip(free, i) ==
    IF i > Len(free) THEN free
    ELSE IF \E j \in 1 .. Len(free) : Contains(free[j], free[i])
         THEN PruneFromNoSkip(RemoveAt(free, i), i)
         ELSE PruneFromNoSkip(free, i + 1)

\* pruneFreeRects: scanning i upward, remove freeRects[i] when some other
\* rectangle contains it, and look at the same index again
RECURSIVE PruneFrom(_, _)
PruneFrom(free, i) ==
    IF i > Len(free) THEN free
    ELSE IF \E j \in 1 .. Len(free) : j /= i /\ Contains(free[j], free[i])
         THEN PruneFrom(RemoveAt(free, i), i)
         ELSE PruneFrom(free, i + 1)
PruneFreeRects(free) == PruneFrom(free, 1)

\* addFreeRect: rectangles without area are not recorded
AddFreeRect(free, r) ==
    IF r.width <= 0 \/ r.height <= 0 THEN free ELSE Append(free, r)

\* (mutant) the left rectangle before the upper one
RectScoreLeftFirst(fr, w, h, layoutWidth) ==
    LET exactW == fr.width = w
        exactH == fr.height = h
    IN fr.x * layoutWidth + fr.y +
         (IF exactW /\ exactH THEN 0 - 1000000
          ELSE IF exactW \/ exactH THEN 0 - 500000 ELSE 0)

\* chooseBestRect's score of a free rectangle that can hold w x h
RectScore(fr, w, h, layoutWidth) ==
    LET exactW == fr.width = w
        exactH == fr.height = h
    IN fr.y * layoutWidth + fr.x +
         (IF exactW /\ exactH THEN 0 - 1000000
          ELSE IF exactW \/ exactH THEN 0 - 500000 ELSE 0)

\* (mutant) a rectangle of exactly the width or the height is passed over
FitsStrictly(fr, w, h) == fr.width > w /\ fr.height > h

\* (mutant) a rectangle of exactly the item's width is passed over
FitsNarrower(fr, w, h) == fr.width > w /\ fr.height >= h

\* (mutant) only the width is tested
FitsWidthOnly(fr, w, h) == fr.width >= w

Fits(fr, w, h) == fr.width >= w /\ fr.height >= h

\* chooseBestRect: the index in freeRects of the first rectangle of least
\* score among those that can hold w x h; 0 for null
ChooseBestRect(free, w, h, layoutWidth) ==
    LET eligible == {i \in 1 .. Len(free) : Fits(free[i], w, h)}
    IN IF eligible = {} THEN 0
       ELSE CHOOSE i \in eligible :
              \A j \in eligible :
                 \/ RectScore(free[i], w, h, layoutWidth) < RectScore(free[j], w, h, layoutWidth)
                 \/ /\ RectScore(free[i], w, h, layoutWidth) = RectScore(free[j], w, h, layoutWidth)
                    /\ i <= j

\* the right remainder of fr after `placed` took its top-left corner
SplitRight(fr, placed) ==
    Rect(placed.x + placed.width, fr.y, fr.width - placed.width, placed.height)

\* (mutant) the bottom remainder starting at the top of fr
SplitBottomFromTop(fr, placed) ==
    Rect(fr.x, fr.y, fr.width, fr.height - placed.height)

\* (mutant) the bottom remainder only as wide as the item
SplitBottomNarrow(fr, placed) ==
    Rect(fr.x, placed.y + placed.height, placed.width, fr.height - placed.height)

\* the bottom remainder
SplitBottom(fr, placed) ==
    Rect(fr.x, placed.y + placed.height, fr.width, fr.height - placed.height)

\* splitFreeRect(fr, placed) with fr = freeRects[idx] (idx = 0: fr is not in the list)
SplitFreeRect(free, idx, fr, placed) ==
    LET removed == IF idx >= 1 THEN RemoveAt(free, idx) ELSE free
        withRight == AddFreeRect(removed, SplitRight(fr, placed))
        withBottom == AddFreeRect(withRight, SplitBottom(fr, placed))
    IN PruneFreeRects(withBottom)

----------------------------------------------------------------------------
(* fillRectWithShelf (lines 330-413) *)

\* the index in remainingAsc of the first item of least width among those
\* that fit the row (width <= spaceW, height <= rowHeight); 0 when none fits
NarrowestFit(remainingAsc, spaceW, rowHeight) ==
    LET fit == {i \in 1 .. Len(remainingAsc) :
                   remainingAsc[i].width <= spaceW /\ remainingAsc[i].height <= rowHeight}
    IN IF fit = {} THEN 0
       ELSE CHOOSE i \in fit :
              \A j \in fit :
                 \/ remainingAsc[i].width < remainingAsc[j].width
                 \/ remainingAsc[i].width = remainingAsc[j].width /\ i <= j

\* the for (;;) loop that fills one row left to right.
\* row = [localX, spaceW, rowMaxH, rowPlaced, remainingAsc, results]
RECURSIVE FillRow(_, _, _, _)
FillRow(row, rectY, rowHeight, unitWidth) ==
    LET foundIndex == NarrowestFit(row.remainingAsc, row.spaceW, rowHeight)
    IN IF foundIndex = 0 THEN row
       ELSE
         LET it == row.remainingAsc[foundIndex]
             placed == Rect(row.localX, rectY, it.width, it.height)
             next == [localX |-> row.localX + it.width,
                      spaceW |-> row.spaceW - it.width,
                      rowMaxH |-> Max(row.rowMaxH, it.height),
                      rowPlaced |-> row.rowPlaced + 1,
                      remainingAsc |-> RemoveAt(row.remainingAsc, foundIndex),
                      results |-> Append(row.results, LayoutGame(it.game, placed))]
         IN IF next.spaceW < unitWidth THEN next
            ELSE FillRow(next, rectY, rowHeight, unitWidth)

\* the while (rect.height >= baseUnitHeight) loop and what follows it.
\* st = [freeRects, remainingAsc, results, placedAny]
RECURSIVE ShelfLoop(_, _, _, _)
ShelfLoop(rect, st, unitWidth, unitHeight) ==
    LET candidates == {i \in 1 .. Len(st.remainingAsc) :
                          /\ st.remainingAsc[i].height <= rect.height
                          /\ st.remainingAsc[i].width <= rect.width}
        leftover == IF rect.height > 0 /\ rect.width > 0
                    THEN [st EXCEPT !.freeRects = PruneFreeRects(AddFreeRect(@, rect))]
                    ELSE st
    IN IF rect.height < unitHeight \/ candidates = {} THEN leftover
       ELSE
         LET rowHeight == CHOOSE h \in {st.remainingAsc[i].height : i \in candidates} :
                              \A i \in candidates : h <= st.remainingAsc[i].height
             row == FillRow([localX |-> rect.x, spaceW |-> rect.width,
                             rowMaxH |-> 0, rowPlaced |-> 0,
                             remainingAsc |-> st.remainingAsc,
                             results |-> st.results],
                            rect.y, rowHeight, unitWidth)
         IN IF row.rowPlaced = 0 THEN leftover
            ELSE
              LET exposed == IF row.spaceW > 0
                             THEN AddFreeRect(st.freeRects,
                                     Rect(row.localX, rect.y, row.spaceW, row.rowMaxH))
                             ELSE st.freeRects
              IN ShelfLoop(Rect(rect.x, rect.y + row.rowMaxH, rect.width,
                                rect.height - row.rowMaxH),
                           [freeRects |-> PruneFreeRects(exposed),
                            remainingAsc |-> row.remainingAsc,
                            results |-> row.results,
                            placedAny |-> TRUE],
                           unitWidth, unitHeight)

\* fillRectWithShelf(fr): fr leaves freeRects and is filled row by row
FillRectWithShelf(fr, free, remainingAsc, res, unitWidth, unitHeight) ==
    LET idx == IndexOf(free, fr)
        removed == IF idx >= 1 THEN RemoveAt(free, idx) ELSE free
    IN ShelfLoop(fr,
                 [freeRects |-> removed, remainingAsc |-> remainingAsc,
                  results |-> res, placedAny |-> FALSE],
                 unitWidth, unitHeight)

----------------------------------------------------------------------------
(* The linear-area size model and the best-area-fit packer (lines 1395-1461) *)

\* area = (playtime / 100) * 20, height = sqrt(area / (2/3)) = sqrt(3 playtime / 10)
LinearHeight(playtime) == ExactSqrt((3 * playtime) \div 10)

\* width = height * (2/3)
LinearWidth(playtime) == (2 * LinearHeight(playtime)) \div 3

\* items: the games with their sizes, sorted by height descending
LinearItems(games) ==
    LET mapped == [i \in 1 .. Len(games) |->
                     [game |-> games[i],
                      width |-> LinearWidth(games[i].playtime_forever),
                      height |-> LinearHeight(games[i].playtime_forever)]]
    IN SortByKey(mapped, [i \in 1 .. Len(mapped) |-> 0 - mapped[i].height])

\* (mutant) first fit: the first free rectangle that holds the item
BestAreaFitFirst(free, w, h) ==
    LET eligible == {i \in 1 .. Len(free) : w <= free[i].width /\ h <= free[i].height}
    IN IF eligible = {} THEN 0
       ELSE CHOOSE i \in eligible : \A j \in eligible : i <= j

\* the scan of lines 1413-1428: the first free rectangle of least
\* (free area - item area) among those that hold the item; 0 when none
BestAreaFit(free, w, h) ==
    LET eligible == {i \in 1 .. Len(free) : w <= free[i].width /\ h <= free[i].height}
    IN IF eligible = {} THEN 0
       ELSE CHOOSE i \in eligible :
              \A j \in eligible :
                 \/ Area(free[i]) - w * h < Area(free[j]) - w * h
                 \/ Area(free[i]) - w * h = Area(free[j]) - w * h /\ i <= j

\* lines 1437-1461: toSplit = freeRects[idx] leaves the list; the right
\* remainder has the full height, the bottom one lies under the item
GuillotineSplit(free, idx, w, h) ==
    LET toSplit == free[idx]
        removed == RemoveAt(free, idx)
        canSplitHorizontally == w < toSplit.width
        canSplitVertically == h < toSplit.height
        right == IF canSplitHorizontally
                 THEN <<Rect(toSplit.x + w, toSplit.y, toSplit.width - w, toSplit.height)>>
                 ELSE <<>>
        bottom == IF canSplitVertically
                  THEN <<Rect(toSplit.x, toSplit.y + h,
                              IF canSplitHorizontally THEN w ELSE toSplit.width,
                              toSplit.height - h)>>
                  ELSE <<>>
    IN removed \o right \o bottom

----------------------------------------------------------------------------
(* Inputs *)

Playtimes(v) == IF v = "tiered" THEN TieredPlaytimes ELSE LinearPlaytimes

\* the appids of a list of n games: ascending or descending
AppIdOrders(n) == {[i \in 1 .. n |-> i], [i \in 1 .. n |-> n + 1 - i]}

\* the game lists getServerSideProps can hand over: pairwise distinct appids
GameLists(v) ==
    UNION {{[i \in 1 .. n |-> SteamGame(ids[i], pt[i])] :
               ids \in AppIdOrders(n), pt \in [1 .. n -> Playtimes(v)]} :
           n \in 0 .. MaxGames}

Variants == {"tiered", "bestfit"}

----------------------------------------------------------------------------
(* The state machine *)

\* no call of calculateCanvasDimensions on its own is under way
CanvasIdle ==
    /\ gameCountArg = 0
    /\ canvasResult = [width |-> 0, height |-> 0]

\* getServerSideProps is not running
AggIdle ==
    /\ settledResults = <<>>
    /\ accountIdx = 1
    /\ aggregated = <<>>
    /\ fetchErrors = <<>>

\* the error value before any attempt: let lastError = null
NoError == [message |-> <<>>, attempt |-> 0]

\* the promise of fetchJsonWithRetry before it settles
Pending == [state |-> "pending", value |-> 0, error |-> NoError]

\* fetchJsonWithRetry is not running
FetchIdle ==
    /\ fetchRetries = 0
    /\ attempt = 0
    /\ lastError = NoError
    /\ fetchLog = <<>>
    /\ fetchOutcome = Pending

\* pruneFreeRects is not called on its own
PruneIdle ==
    /\ pruneInput = <<>>
    /\ pruneOutput = <<>>

\* the tier multiplier is not computed on its own
TierIdle ==
    /\ tierPlaytime = 0
    /\ tierListMax = 0
    /\ tierMult = 0

\* the remainingDesc sort is not run on its own
JitterIdle ==
    /\ jitterItems = <<>>
    /\ jitterOrder = <<>>

\* the base unit is not computed on its own
UnitIdle ==
    /\ unitGameCount = 0
    /\ unitTotalUnits = 0
    /\ unitMaxMult = 0
    /\ unitSize = [width |-> 0, height |-> 0]
    /\ unitTarget = 0

\* the achievement probing is not running
ProbeIdle ==
    /\ probeGames = 0
    /\ probeAccounts = 0
    /\ probeFull = {}
    /\ probeTasks = <<>>
    /\ taskIdx = 0
    /\ issued = 0
    /\ lastBatch = 0
    /\ seenApps = {}
    /\ goldSet = {}

\* the page is not mounted: no run of the draw effect, the state of useState
DrawIdle ==
    /\ drawRuns = <<>>
    /\ imageStatus = <<"null", 0, 0>>
    /\ isDrawing = FALSE
    /\ previewImage = "null"
    /\ staleUpdates = {}

\* none of the functions and handlers modelled on their own is running
AuxIdle ==
    /\ PruneIdle
    /\ TierIdle
    /\ JitterIdle
    /\ UnitIdle
    /\ ProbeIdle
    /\ DrawIdle

Init ==
    /\ variant \in Variants
    /\ initialGames \in GameLists(variant)
    /\ run = 1
    /\ pc = "start"
    /\ canvasDimensions = CalculateCanvasDimensions(Len(initialGames))
    /\ baseUnitWidth = 0
    /\ baseUnitHeight = 0
    /\ freeRects = <<>>
    /\ remainingDesc = <<>>
    /\ cursor = 1
    /\ overflow = <<>>
    /\ fillQueue = <<>>
    /\ results = <<>>
    /\ firstResults = <<>>
    /\ CanvasIdle
    /\ AggIdle
    /\ FetchIdle
    /\ AuxIdle

\* tiered layoutGames, lines 148-303: sizes, the initial free rectangle and
\* the processing order; an empty list returns [] at once
TieredStart ==
    /\ pc = "start"
    /\ variant = "tiered"
    /\ IF Len(initialGames) = 0
       THEN /\ pc' = "done"
            /\ UNCHANGED <<baseUnitWidth, baseUnitHeight, freeRects, remainingDesc>>
       ELSE LET W == canvasDimensions.width
                H == canvasDimensions.height
                items == Items(initialGames)
                unitWidth == QuantisedUnitWidth(items, W, H)
                unitHeight == QuantisedUnitHeight(unitWidth)
                header == HeaderInfoHeight(H)
            IN /\ pc' = "primary"
               /\ baseUnitWidth' = unitWidth
               /\ baseUnitHeight' = unitHeight
               /\ freeRects' = <<Rect(0, header, W, Max(0, H - header))>>
               /\ remainingDesc' = RemainingDesc(Prepared(items, unitWidth, unitHeight))
    /\ results' = <<>>
    /\ cursor' = 1
    /\ overflow' = <<>>
    /\ UNCHANGED <<initialGames, variant, run, canvasDimensions, fillQueue, firstResults>>
    /\ UNCHANGED nonLayoutVars

\* one iteration of the primary pass, lines 305-323
TieredPlace ==
    /\ pc = "primary"
    /\ variant = "tiered"
    /\ cursor <= Len(remainingDesc)
    /\ LET it == remainingDesc[cursor]
           target == ChooseBestRect(freeRects, it.width, it.height, canvasDimensions.width)
       IN IF target = 0
          THEN /\ overflow' = Append(overflow, it)
               /\ UNCHANGED <<results, freeRects>>
          ELSE LET fr == freeRects[target]
                   placed == Rect(fr.x, fr.y, it.width, it.height)
               IN /\ results' = Append(results, LayoutGame(it.game, placed))
                  /\ freeRects' = SplitFreeRect(freeRects, target, fr, placed)
                  /\ UNCHANGED overflow
    /\ cursor' = cursor + 1
    /\ UNCHANGED <<initialGames, variant, run, pc, canvasDimensions, baseUnitWidth,
                   baseUnitHeight, remainingDesc, fillQueue, firstResults>>
    /\ UNCHANGED nonLayoutVars

\* lines 327-328 and 415: freeRects sorted by (y, x), overflow sorted by mult
\* ascending (remainingAsc), and the copy of freeRects the driver loop walks
TieredBeginFill ==
    /\ pc = "primary"
    /\ variant = "tiered"
    /\ cursor > Len(remainingDesc)
    /\ LET sortedFree == SortByKey(freeRects,
               [i \in 1 .. Len(freeRects) |->
                   freeRects[i].y * (CanvasMaxWidth + 1) + freeRects[i].x])
       IN /\ freeRects' = sortedFree
          /\ fillQueue' = sortedFree
    /\ overflow' = SortByKey(overflow, [i \in 1 .. Len(overflow) |-> overflow[i].mult])
    /\ pc' = "fill"
    /\ UNCHANGED <<initialGames, variant, run, canvasDimensions, baseUnitWidth,
                   baseUnitHeight, remainingDesc, cursor, results, firstResults>>
    /\ UNCHANGED nonLayoutVars

\* (mutant) the driver loop walking freeRects itself instead of a copy: the
\* rectangle fillRectWithShelf hands back is visited again
TieredFillLive ==
    /\ pc = "fill"
    /\ fillQueue /= <<>>
    /\ LET st == FillRectWithShelf(Head(fillQueue), freeRects, overflow, results,
                                   baseUnitWidth, baseUnitHeight)
       IN /\ freeRects' = st.freeRects
          /\ overflow' = st.remainingAsc
          /\ results' = st.results
          /\ fillQueue' = IF Len(st.freeRects) = Len(freeRects)
                          THEN Append(Tail(fillQueue), st.freeRects[Len(st.freeRects)])
                          ELSE Tail(fillQueue)
    /\ UNCHANGED <<initialGames, variant, run, pc, canvasDimensions, baseUnitWidth,
                   baseUnitHeight, remainingDesc, cursor, firstResults>>
    /\ UNCHANGED nonLayoutVars

\* one iteration of the driver loop, lines 415-417: fillRectWithShelf(fr)
TieredFill ==
    /\ pc = "fill"
    /\ fillQueue /= <<>>
    /\ LET st == FillRectWithShelf(Head(fillQueue), freeRects, overflow, results,
                                   baseUnitWidth, baseUnitHeight)
       IN /\ freeRects' = st.freeRects
          /\ overflow' = st.remainingAsc
          /\ results' = st.results
    /\ fillQueue' = Tail(fillQueue)
    /\ UNCHANGED <<initialGames, variant, run, pc, canvasDimensions, baseUnitWidth,
                   baseUnitHeight, remainingDesc, cursor, firstResults>>
    /\ UNCHANGED nonLayoutVars

\* line 419: return results
TieredReturn ==
    /\ pc = "fill"
    /\ fillQueue = <<>>
    /\ pc' = "done"
    /\ UNCHANGED <<initialGames, variant, run, canvasDimensions, baseUnitWidth,
                   baseUnitHeight, freeRects, remainingDesc, cursor, overflow,
                   fillQueue, results, firstResults>>
    /\ UNCHANGED nonLayoutVars

\* best-fit layoutGames, lines 1388-1406
BestFitStart ==
    /\ pc = "start"
    /\ variant = "bestfit"
    /\ IF Len(initialGames) = 0
       THEN /\ pc' = "done"
            /\ UNCHANGED <<freeRects, remainingDesc>>
       ELSE /\ pc' = "primary"
            /\ remainingDesc' = LinearItems(initialGames)
            /\ freeRects' = <<Rect(0, 0, canvasDimensions.width, canvasDimensions.height)>>
    /\ results' = <<>>
    /\ cursor' = 1
    /\ UNCHANGED <<initialGames, variant, run, canvasDimensions, baseUnitWidth,
                   baseUnitHeight, overflow, fillQueue, firstResults>>
    /\ UNCHANGED nonLayoutVars

\* one iteration of the loop of lines 1408-1463
BestFitPlace ==
    /\ pc = "primary"
    /\ variant = "bestfit"
    /\ cursor <= Len(remainingDesc)
    /\ LET game == remainingDesc[cursor]
           bestRectIndex == BestAreaFit(freeRects, game.width, game.height)
       IN IF bestRectIndex = 0
          THEN UNCHANGED <<results, freeRects>>
          ELSE LET fr == freeRects[bestRectIndex]
                   bestNode == Rect(fr.x, fr.y, game.width, game.height)
               IN /\ results' = Append(results, LayoutGame(game.game, bestNode))
                  /\ freeRects' = GuillotineSplit(freeRects, bestRectIndex,
                                                  bestNode.width, bestNode.height)
    /\ cursor' = cursor + 1
    /\ UNCHANGED <<initialGames, variant, run, pc, canvasDimensions, baseUnitWidth,
                   baseUnitHeight, remainingDesc, overflow, fillQueue, firstResults>>
    /\ UNCHANGED nonLayoutVars

\* line 1465: return results
BestFitReturn ==
    /\ pc = "primary"
    /\ variant = "bestfit"
    /\ cursor > Len(remainingDesc)
    /\ pc' = "done"
    /\ UNCHANGED <<initialGames, variant, run, canvasDimensions, baseUnitWidth,
                   baseUnitHeight, freeRects, remainingDesc, cursor, overflow,
                   fillQueue, results, firstResults>>
    /\ UNCHANGED nonLayoutVars

\* the page rendered on the server is rendered again in the browser from the
\* same props: useMemo evaluates layoutGames a second time
Hydrate ==
    /\ pc = "done"
    /\ run = 1
    /\ run' = 2
    /\ firstResults' = results
    /\ pc' = "start"
    /\ baseUnitWidth' = 0
    /\ baseUnitHeight' = 0
    /\ freeRects' = <<>>
    /\ remainingDesc' = <<>>
    /\ cursor' = 1
    /\ overflow' = <<>>
    /\ fillQueue' = <<>>
    /\ results' = <<>>
    /\ UNCHANGED <<initialGames, variant, canvasDimensions>>
    /\ UNCHANGED nonLayoutVars

Next ==
    \/ TieredStart
    \/ TieredPlace
    \/ TieredBeginFill
    \/ TieredFill
    \/ TieredReturn
    \/ BestFitStart
    \/ BestFitPlace
    \/ BestFitReturn
    \/ Hydrate

Spec == Init /\ [][Next]_vars

----------------------------------------------------------------------------
(* calculateCanvasDimensions on its own: called for a game count, and called
   again when the page is loaded with a longer game list (lines 141-144) *)

\* the page component is not rendering
LayoutIdle ==
    /\ initialGames = <<>>
    /\ variant = "none"
    /\ run = 1
    /\ canvasDimensions = [width |-> 0, height |-> 0]
    /\ baseUnitWidth = 0
    /\ baseUnitHeight = 0
    /\ freeRects = <<>>
    /\ remainingDesc = <<>>
    /\ cursor = 1
    /\ overflow = <<>>
    /\ fillQueue = <<>>
    /\ results = <<>>
    /\ firstResults = <<>>

CanvasInit ==
    /\ LayoutIdle
    /\ pc = "canvas"
    /\ gameCountArg \in 0 .. MaxCount
    /\ canvasResult = [width |-> 0, height |-> 0]
    /\ AggIdle
    /\ FetchIdle
    /\ AuxIdle

\* calculateCanvasDimensions(gameCount)
CanvasCall ==
    /\ pc = "canvas"
    /\ canvasResult' = CalculateCanvasDimensions(gameCountArg)
    /\ pc' = "canvasDone"
    /\ UNCHANGED <<initialGames, variant, run, canvasDimensions, baseUnitWidth,
                   baseUnitHeight, freeRects, remainingDesc, cursor, overflow,
                   fillQueue, results, firstResults, gameCountArg>>
    /\ UNCHANGED <<aggVars, fetchVars, auxVars>>

\* the page is loaded again with more games: calculateCanvasDimensions is
\* called for the larger count
CanvasGrow ==
    /\ pc = "canvasDone"
    /\ \E more \in gameCountArg + 1 .. MaxCount :
          /\ gameCountArg' = more
          /\ canvasResult' = CalculateCanvasDimensions(more)
    /\ UNCHANGED <<layoutVars, aggVars, fetchVars, auxVars>>

CanvasNext ==
    \/ CanvasCall
    \/ CanvasGrow

SpecCanvas == CanvasInit /\ [][CanvasNext]_vars

----------------------------------------------------------------------------
(* The aggregation of getServerSideProps (lines 1113-1147) *)

\* the games one account can own: fetchOwned maps every entry of the
\* response to { appid, name, playtime_forever || 0 }
OwnedGames == {SteamGame(a, p) : a \in {1, 2}, p \in {0, 60}}

\* the lists fetchOwned can resolve with; an appid may occur twice in one list
OwnedLists == UNION {[1 .. n -> OwnedGames] : n \in 0 .. 2}

\* what Promise.allSettled reports for one account
Fulfilled(list) == [status |-> "fulfilled", value |-> list, reason |-> ""]
Rejected(msg) == [status |-> "rejected", value |-> <<>>, reason |-> msg]
SettledValues == {Fulfilled(l) : l \in OwnedLists} \cup {Rejected("HTTP 500")}

\* (mutant) the playtime of an appid seen again replaces the one recorded
AggregateGameOverwrite(agg, g) ==
    IF \E i \in 1 .. Len(agg) : agg[i].appid = g.appid
    THEN LET i == CHOOSE k \in 1 .. Len(agg) : agg[k].appid = g.appid
         IN [agg EXCEPT ![i].playtime_forever = g.playtime_forever]
    ELSE Append(agg, SteamGame(g.appid, g.playtime_forever))

\* the body of the for loop, lines 1122-1129: prev.playtime_forever +=
\* g.playtime_forever, or a new entry at the end of the Map
AggregateGame(agg, g) ==
    IF \E i \in 1 .. Len(agg) : agg[i].appid = g.appid
    THEN LET i == CHOOSE k \in 1 .. Len(agg) : agg[k].appid = g.appid
         IN [agg EXCEPT ![i].playtime_forever = @ + g.playtime_forever]
    ELSE Append(agg, SteamGame(g.appid, g.playtime_forever))

\* for (const g of list), lines 1121-1129
RECURSIVE AggregateList(_, _)
AggregateList(agg, list) ==
    IF list = <<>> THEN agg
    ELSE AggregateList(AggregateGame(agg, Head(list)), Tail(list))

AggInit ==
    /\ LayoutIdle
    /\ pc = "aggregate"
    /\ CanvasIdle
    /\ FetchIdle
    /\ AuxIdle
    /\ settledResults \in UNION {[1 .. n -> SettledValues] : n \in 1 .. MaxAccounts}
    /\ accountIdx = 1
    /\ aggregated = <<>>
    /\ fetchErrors = <<>>

\* one call of the forEach callback, lines 1117-1134
AggForEach ==
    /\ pc = "aggregate"
    /\ accountIdx <= Len(settledResults)
    /\ LET res == settledResults[accountIdx]
       IN IF res.status = "fulfilled"
          THEN /\ aggregated' = AggregateList(aggregated, res.value)
               /\ UNCHANGED fetchErrors
          ELSE /\ fetchErrors' = Append(fetchErrors, <<accountIdx, res.reason>>)
               /\ UNCHANGED aggregated
    /\ accountIdx' = accountIdx + 1
    /\ UNCHANGED <<settledResults, layoutVars, canvasVars, fetchVars, auxVars>>

\* lines 1136-1144: nothing aggregated leaves props.initialGames = [],
\* otherwise props.initialGames = Array.from(aggregated.values())
AggReturn ==
    /\ pc = "aggregate"
    /\ accountIdx > Len(settledResults)
    /\ initialGames' = IF Len(aggregated) = 0 THEN initialGames ELSE aggregated
    /\ pc' = "aggDone"
    /\ UNCHANGED <<variant, run, canvasDimensions, baseUnitWidth, baseUnitHeight,
                   freeRects, remainingDesc, cursor, overflow, fillQueue, results,
                   firstResults>>
    /\ UNCHANGED <<canvasVars, aggVars, fetchVars, auxVars>>

AggNext ==
    \/ AggForEach
    \/ AggReturn

SpecAggregate == AggInit /\ [][AggNext]_vars

----------------------------------------------------------------------------
(* fetchJsonWithRetry (lines 47-84) *)

\* messages of the errors fetch can reject with, as sequences of words:
\* connection errors of Node, the timeout of node-fetch, the NetworkError of
\* a browser, an error named in its message as AbortError, the message of
\* the DOMException an AbortController raises, and the TypeError of undici
FetchFailures ==
    {<<"read", "ECONNRESET">>, <<"connect", "ETIMEDOUT">>,
     <<"getaddrinfo", "ENOTFOUND">>, <<"network", "timeout">>,
     <<"NetworkError", "when", "attempting">>, <<"AbortError", "aborted">>,
     <<"This", "operation", "was", "aborted">>, <<"fetch", "failed">>}

\* what one await fetch(...) and the res.json() after it can come to
AttemptResults ==
    {[kind |-> "response", status |-> st, json |-> j, message |-> <<>>] :
        st \in {"200", "404", "500"}, j \in {"valid", "invalid"}}
    \cup {[kind |-> "failure", status |-> "", json |-> "", message |-> m] :
             m \in FetchFailures}

\* msg.includes(word), on a message of whole words
Includes(msg, word) == \E i \in 1 .. Len(msg) : msg[i] = word

\* (mutant) the HTTP errors of line 61 taken for transient as well
IsTransientOrHttp(msg) ==
    \/ Includes(msg, "AbortError")
    \/ Includes(msg, "ECONNRESET")
    \/ Includes(msg, "ETIMEDOUT")
    \/ Includes(msg, "ENOTFOUND")
    \/ Includes(msg, "network")
    \/ Includes(msg, "NetworkError")
    \/ Includes(msg, "HTTP")

\* isTransient, lines 67-73
IsTransient(msg) ==
    \/ Includes(msg, "AbortError")
    \/ Includes(msg, "ECONNRESET")
    \/ Includes(msg, "ETIMEDOUT")
    \/ Includes(msg, "ENOTFOUND")
    \/ Includes(msg, "network")
    \/ Includes(msg, "NetworkError")

\* (mutant) res.ok not looked at
ResOkAlways(res) == res.kind = "response"

\* res.ok: a status of 200-299
ResOk(res) == res.kind = "response" /\ res.status = "200"

\* the error an attempt that does not return throws into the catch block:
\* what fetch rejected with, new Error(`HTTP ${status} ...`) of line 61, or
\* the SyntaxError of res.json()
ErrorOf(res, n) ==
    [message |-> IF res.kind = "failure" THEN res.message
                 ELSE IF ~ResOk(res) THEN <<"HTTP", res.status>>
                 ELSE <<"Unexpected", "token">>,
     attempt |-> n]

\* the value res.json() resolves with, named by the attempt it came from
JsonOf(n) == n

FetchInit ==
    /\ LayoutIdle
    /\ pc = "fetch"
    /\ CanvasIdle
    /\ AggIdle
    /\ AuxIdle
    /\ fetchRetries \in -1 .. MaxRetries
    /\ attempt = 0
    /\ lastError = NoError
    /\ fetchLog = <<>>
    /\ fetchOutcome = Pending

\* one iteration of the for loop up to its return, its throw or its wait
FetchAttempt ==
    /\ pc = "fetch"
    /\ attempt <= fetchRetries
    /\ \E res \in AttemptResults :
          /\ fetchLog' = Append(fetchLog, res)
          /\ IF ResOk(res) /\ res.json = "valid"
             THEN /\ fetchOutcome' = [state |-> "resolved",
                                      value |-> JsonOf(Len(fetchLog) + 1),
                                      error |-> NoError]
                  /\ pc' = "fetchDone"
                  /\ UNCHANGED lastError
             ELSE LET e == ErrorOf(res, Len(fetchLog) + 1)
                  IN /\ lastError' = e
                     /\ IF ~IsTransient(e.message) \/ attempt = fetchRetries
                        THEN /\ fetchOutcome' = [state |-> "rejected", value |-> 0,
                                                 error |-> e]
                             /\ pc' = "fetchDone"
                        ELSE /\ pc' = "fetchWait"
                             /\ UNCHANGED fetchOutcome
    /\ UNCHANGED <<attempt, fetchRetries>>
    /\ UNCHANGED <<initialGames, variant, run, canvasDimensions, baseUnitWidth,
                   baseUnitHeight, freeRects, remainingDesc, cursor, overflow,
                   fillQueue, results, firstResults>>
    /\ UNCHANGED <<canvasVars, aggVars, auxVars>>

\* the 800 ms wait is over: attempt++
FetchWait ==
    /\ pc = "fetchWait"
    /\ attempt' = attempt + 1
    /\ pc' = "fetch"
    /\ UNCHANGED <<fetchRetries, lastError, fetchLog, fetchOutcome>>
    /\ UNCHANGED <<initialGames, variant, run, canvasDimensions, baseUnitWidth,
                   baseUnitHeight, freeRects, remainingDesc, cursor, overflow,
                   fillQueue, results, firstResults>>
    /\ UNCHANGED <<canvasVars, aggVars, auxVars>>

\* the loop is left without a return or a throw: throw lastError, line 83
FetchExhausted ==
    /\ pc = "fetch"
    /\ attempt > fetchRetries
    /\ fetchOutcome' = [state |-> "rejected", value |-> 0, error |-> lastError]
    /\ pc' = "fetchDone"
    /\ UNCHANGED <<fetchRetries, attempt, lastError, fetchLog>>
    /\ UNCHANGED <<initialGames, variant, run, canvasDimensions, baseUnitWidth,
                   baseUnitHeight, freeRects, remainingDesc, cursor, overflow,
                   fillQueue, results, firstResults>>
    /\ UNCHANGED <<canvasVars, aggVars, auxVars>>

FetchNext ==
    \/ FetchAttempt
    \/ FetchWait
    \/ FetchExhausted

SpecFetch == FetchInit /\ [][FetchNext]_vars

----------------------------------------------------------------------------
(* Frames: what a function or handler modelled on its own leaves alone *)

\* the page component's state but for the position pc
layoutRest == <<initialGames, variant, run, canvasDimensions, baseUnitWidth,
                baseUnitHeight, freeRects, remainingDesc, cursor, overflow,
                fillQueue, results, firstResults>>

pruneRest == <<layoutRest, canvasVars, aggVars, fetchVars, tierVars, jitterVars, unitVars, probeVars, drawVars>>

PruneOthersIdle ==
    /\ LayoutIdle
    /\ CanvasIdle
    /\ AggIdle
    /\ FetchIdle
    /\ TierIdle
    /\ JitterIdle
    /\ UnitIdle
    /\ ProbeIdle
    /\ DrawIdle

tierRest == <<layoutRest, canvasVars, aggVars, fetchVars, pruneVars, jitterVars, unitVars, probeVars, drawVars>>

TierOthersIdle ==
    /\ LayoutIdle
    /\ CanvasIdle
    /\ AggIdle
    /\ FetchIdle
    /\ PruneIdle
    /\ JitterIdle
    /\ UnitIdle
    /\ ProbeIdle
    /\ DrawIdle

jitterRest == <<layoutRest, canvasVars, aggVars, fetchVars, pruneVars, tierVars, unitVars, probeVars, drawVars>>

JitterOthersIdle ==
    /\ LayoutIdle
    /\ CanvasIdle
    /\ AggIdle
    /\ FetchIdle
    /\ PruneIdle
    /\ TierIdle
    /\ UnitIdle
    /\ ProbeIdle
    /\ DrawIdle

unitRest == <<layoutRest, canvasVars, aggVars, fetchVars, pruneVars, tierVars, jitterVars, probeVars, drawVars>>

UnitOthersIdle ==
    /\ LayoutIdle
    /\ CanvasIdle
    /\ AggIdle
    /\ FetchIdle
    /\ PruneIdle
    /\ TierIdle
    /\ JitterIdle
    /\ ProbeIdle
    /\ DrawIdle

probeRest == <<layoutRest, canvasVars, aggVars, fetchVars, pruneVars, tierVars, jitterVars, unitVars, drawVars>>

ProbeOthersIdle ==
    /\ LayoutIdle
    /\ CanvasIdle
    /\ AggIdle
    /\ FetchIdle
    /\ PruneIdle
    /\ TierIdle
    /\ JitterIdle
    /\ UnitIdle
    /\ DrawIdle

drawRest == <<layoutRest, canvasVars, aggVars, fetchVars, pruneVars, tierVars, jitterVars, unitVars, probeVars>>

DrawOthersIdle ==
    /\ LayoutIdle
    /\ CanvasIdle
    /\ AggIdle
    /\ FetchIdle
    /\ PruneIdle
    /\ TierIdle
    /\ JitterIdle
    /\ UnitIdle
    /\ ProbeIdle

----------------------------------------------------------------------------
(* pruneFreeRects on its own (lines 233-246), for any contents of freeRects *)

\* rectangles on a small grid: some equal, some nested, some apart
SmallRects == {Rect(x, y, w, h) : x \in 0 .. 1, y \in 0 .. 1, w \in 1 .. 2, h \in 1 .. 2}

PruneInit ==
    /\ PruneOthersIdle
    /\ pc = "prune"
    /\ pruneInput \in UNION {[1 .. n -> SmallRects] : n \in 0 .. MaxRects}
    /\ pruneOutput = <<>>

\* pruneFreeRects()
PruneCall ==
    /\ pc = "prune"
    /\ pruneOutput' = PruneFreeRects(pruneInput)
    /\ pc' = "pruneDone"
    /\ UNCHANGED pruneInput
    /\ UNCHANGED pruneRest

PruneNext ==
    \/ PruneCall

SpecPrune == PruneInit /\ [][PruneNext]_vars

----------------------------------------------------------------------------
(* The tier multiplier on its own (lines 163-181), for playtimes up to
   MaxTierSteps times ten hours. None of the playtime pairs offered has
   sqrt(playtime / maxTime) * TIER_MAX on a half, where the floating-point
   quotient of the two square roots can fall on the other side. *)

TierTimes == {0, 1, 59, 599, 600, 601} \cup {TenHours * k : k \in 1 .. MaxTierSteps}

TierInit ==
    /\ TierOthersIdle
    /\ pc = "tier"
    /\ tierListMax \in TierTimes
    /\ tierPlaytime \in {p \in TierTimes : p <= tierListMax}
    /\ tierMult = 0

\* the callback of baseList.map for one game, with
\* maxTime = Math.max(...times, 1) and times = max(playtime, 1)
TierCall ==
    /\ pc = "tier"
    /\ tierMult' = TierMult(tierPlaytime, Max(Max(tierListMax, 1), 1))
    /\ pc' = "tierDone"
    /\ UNCHANGED <<tierPlaytime, tierListMax>>
    /\ UNCHANGED tierRest

TierNext ==
    \/ TierCall

SpecTier == TierInit /\ [][TierNext]_vars

----------------------------------------------------------------------------
(* The remainingDesc sort on its own (lines 297-302), for any jitter values *)

\* prepared items: neighbouring tiers, and jitter values rnd (in millionths)
\* at both ends and in the middle of [0,1]
JitterItems ==
    {[mult |-> m, rnd |-> r] : m \in 1 .. 3, r \in {0, 500000, 1000000}}

JitterInit ==
    /\ JitterOthersIdle
    /\ pc = "jitter"
    /\ jitterItems \in UNION {[1 .. n -> JitterItems] : n \in 1 .. MaxJitterItems}
    /\ jitterOrder = <<>>

\* const remainingDesc = [...prepared].sort(...)
JitterSort ==
    /\ pc = "jitter"
    /\ jitterOrder' = RemainingDesc(jitterItems)
    /\ pc' = "jitterDone"
    /\ UNCHANGED jitterItems
    /\ UNCHANGED jitterRest

JitterNext ==
    \/ JitterSort

SpecJitter == JitterInit /\ [][JitterNext]_vars

----------------------------------------------------------------------------
(* The base unit on its own (lines 192-217) and the first turn of the
   primary pass, for game counts up to MaxUnitGames *)

\* the game lists are told apart by their length, their number of games of
\* tier 8 and the tier of the other games: the game of the longest playtime
\* has tier 8 when it has ten hours and every game has tier 1 when it has not
UnitInit ==
    /\ UnitOthersIdle
    /\ pc = "unit"
    /\ unitGameCount \in 1 .. MaxUnitGames
    /\ \E eights \in 0 .. 3, other \in {1, 2, 7} :
          /\ eights <= unitGameCount
          /\ eights = 0 => other = 1
          /\ unitMaxMult = IF eights = 0 THEN 1 ELSE TIER_MAX
          /\ unitTotalUnits = eights * TIER_MAX * TIER_MAX
                                 + (unitGameCount - eights) * other * other
    /\ unitSize = [width |-> 0, height |-> 0]
    /\ unitTarget = 0

\* lines 188-217, then chooseBestRect for the first item of remainingDesc,
\* which has the multiplier maxMult
UnitCall ==
    /\ pc = "unit"
    /\ LET canvas == CalculateCanvasDimensions(unitGameCount)
           W == canvas.width
           H == canvas.height
           unitWidth == QuantisedUnitWidthOf(unitTotalUnits, unitMaxMult, W, H)
           unitHeight == QuantisedUnitHeight(unitWidth)
           header == HeaderInfoHeight(H)
       IN /\ unitSize' = [width |-> unitWidth, height |-> unitHeight]
          /\ unitTarget' = ChooseBestRect(<<Rect(0, header, W, Max(0, H - header))>>,
                                          unitMaxMult * unitWidth,
                                          unitMaxMult * unitHeight, W)
    /\ pc' = "unitDone"
    /\ UNCHANGED <<unitGameCount, unitTotalUnits, unitMaxMult>>
    /\ UNCHANGED unitRest

UnitNext ==
    \/ UnitCall

SpecUnit == UnitInit /\ [][UnitNext]_vars

----------------------------------------------------------------------------
(* The achievement probing of getServerSideProps (lines 1169-1223). The
   games are named by their rank in the order of descending playtime. *)

ProbeLimit == 50
CONCURRENCY == 6
RequestCap == 200

\* LIMIT = Math.min(50, aggregatedGames.length)
LIMIT(games) == Min(ProbeLimit, games)

\* MAX_REQUESTS = Math.min(LIMIT * resolvedPairs.length, 200)
MAX_REQUESTS(games, accounts) == Min(LIMIT(games) * accounts, RequestCap)

\* tasks: for (const g of topGames) for (const rp of resolvedPairs)
Tasks(games, accounts) ==
    [k \in 1 .. LIMIT(games) * accounts |->
        [appid |-> ((k - 1) \div accounts) + 1, rp |-> ((k - 1) % accounts) + 1]]

\* tasks.slice(i, i + CONCURRENCY).filter(t => !seenApps.has(t.appid)), as
\* the set of the indices (from 1) of the tasks of the batch
Batch(tasks, i, seen) ==
    {k \in i + 1 .. Min(i + CONCURRENCY, Len(tasks)) : tasks[k].appid \notin seen}

ProbeInit ==
    /\ ProbeOthersIdle
    /\ pc = "probe"
    /\ probeGames \in 1 .. MaxProbeGames
    /\ probeAccounts \in 1 .. MaxProbeAccounts
    /\ \E kind \in {"none", "first", "allByFirst", "allByLast"} :
          probeFull =
             CASE kind = "none" -> {}
               [] kind = "first" -> {<<1, 1>>}
               [] kind = "allByFirst" -> {<<a, 1>> : a \in 1 .. probeGames}
               [] kind = "allByLast" -> {<<a, probeAccounts>> : a \in 1 .. probeGames}
    /\ probeTasks = <<>>
    /\ taskIdx = 0
    /\ issued = 0
    /\ lastBatch = 0
    /\ seenApps = {}
    /\ goldSet = {}

\* lines 1171-1194: the tasks are laid out
ProbeStart ==
    /\ pc = "probe"
    /\ probeTasks' = Tasks(probeGames, probeAccounts)
    /\ taskIdx' = 0
    /\ issued' = 0
    /\ pc' = "probeLoop"
    /\ UNCHANGED <<probeGames, probeAccounts, probeFull, lastBatch, seenApps, goldSet>>
    /\ UNCHANGED probeRest

\* one iteration of the while loop, lines 1197-1213: the batch is issued,
\* awaited, and its results are collected
ProbeBatch ==
    /\ pc = "probeLoop"
    /\ taskIdx < Len(probeTasks)
    /\ issued < MAX_REQUESTS(probeGames, probeAccounts)
    /\ LET batch == Batch(probeTasks, taskIdx, seenApps)
           ok == {probeTasks[k].appid : k \in {j \in batch :
                     <<probeTasks[j].appid, probeTasks[j].rp>> \in probeFull}}
       IN /\ issued' = issued + Cardinality(batch)
          /\ lastBatch' = Cardinality(batch)
          /\ goldSet' = goldSet \cup ok
          /\ seenApps' = seenApps \cup ok
    /\ taskIdx' = taskIdx + CONCURRENCY
    /\ UNCHANGED <<probeGames, probeAccounts, probeFull, probeTasks>>
    /\ UNCHANGED <<pc, probeRest>>

\* the loop is left: props.goldAppids = Array.from(goldSet)
ProbeReturn ==
    /\ pc = "probeLoop"
    /\ ~(taskIdx < Len(probeTasks) /\ issued < MAX_REQUESTS(probeGames, probeAccounts))
    /\ pc' = "probeDone"
    /\ UNCHANGED probeVars
    /\ UNCHANGED probeRest

ProbeNext ==
    \/ ProbeStart
    \/ ProbeBatch
    \/ ProbeReturn

SpecProbe == ProbeInit /\ [][ProbeNext]_vars

----------------------------------------------------------------------------
(* The draw effect of HomePage (lines 423-754). Every render with a new
   game list cleans the previous run up and starts a run of drawCollage;
   a run stops at each await until the image load settles, so the runs
   interleave. imageStatus is <<kind, a, b>> for the text of the message
   and the numbers in it. *)

ReportEvery == 10

\* the run of the effect that a render with n games and the given avatar
\* starts, at its first await (lines 424-485), or returned at line 428
NewRun(n, avatar) ==
    [isCancelled |-> FALSE, entries |-> n, loadedCount |-> 0, avatar |-> avatar,
     at |-> IF n = 0 THEN "returned" ELSE "loadImage"]

\* lines 514-746 of a run: the header and the tiles are painted; the loop
\* over the non-empty layoutGames returns at once when the run is cancelled
\* (line 569), else the run completes (lines 740-746)
Paint(r, status) ==
    IF r.isCancelled
      THEN [imageStatus |-> status, isDrawing |-> isDrawing,
            previewImage |-> previewImage, updated |-> {}]
      ELSE [imageStatus |-> <<"done", r.entries, 0>>, isDrawing |-> FALSE,
            previewImage |-> "dataUrl",
            updated |-> {"imageStatus", "isDrawing", "previewImage"}]

\* the component state a step of run r has updated after the cancellation
Stale(r, updated) == IF r.isCancelled THEN updated ELSE {}

DrawInit ==
    /\ DrawOthersIdle
    /\ pc = "draw"
    /\ DrawIdle

\* the page renders with a game list of n games (the mount, or new props
\* after router.push): the cleanup of the previous run (line 752) and a new
\* run of the effect up to its first await (lines 424-485)
Render ==
    /\ pc = "draw"
    /\ Len(drawRuns) < MaxRenders
    /\ \E n \in 0 .. MaxDrawGames, avatar \in BOOLEAN :
          /\ drawRuns' =
                Append([k \in 1 .. Len(drawRuns) |->
                          IF k = Len(drawRuns)
                            THEN [drawRuns[k] EXCEPT !.isCancelled = TRUE]
                            ELSE drawRuns[k]],
                       NewRun(n, avatar))
          /\ IF n = 0
               THEN UNCHANGED <<imageStatus, isDrawing>>
               ELSE /\ isDrawing' = TRUE
                    /\ imageStatus' = <<"loading", n, 0>>
    /\ UNCHANGED <<previewImage, staleUpdates>>
    /\ UNCHANGED <<pc, drawRest>>

\* the image load run k awaits at line 485 settles (loaded or failed): lines
\* 486-498, then the next entry (lines 477-485), or lines 500-512 and, with
\* no avatar to load, the painting
ImageSettled(k) ==
    /\ pc = "draw"
    /\ k \in 1 .. Len(drawRuns)
    /\ drawRuns[k].at = "loadImage"
    /\ LET r == drawRuns[k]
           loaded == r.loadedCount + 1
           reported == IF loaded % ReportEvery = 0 \/ loaded = r.entries
                         THEN <<"loaded", loaded, r.entries>>
                         ELSE imageStatus
           reports == IF loaded % ReportEvery = 0 \/ loaded = r.entries
                        THEN {"imageStatus"} ELSE {}
           painted == Paint(r, <<"drawing", 0, 0>>)
       IN IF loaded < r.entries
            THEN /\ drawRuns' = [drawRuns EXCEPT ![k].loadedCount = loaded,
                                   ![k].at = IF r.isCancelled THEN "returned" ELSE "loadImage"]
                 /\ imageStatus' = reported
                 /\ staleUpdates' = staleUpdates \cup Stale(r, reports)
                 /\ UNCHANGED <<isDrawing, previewImage>>
            ELSE IF r.avatar
              THEN /\ drawRuns' = [drawRuns EXCEPT ![k].loadedCount = loaded,
                                     ![k].at = "loadAvatar"]
                   /\ imageStatus' = <<"drawing", 0, 0>>
                   /\ staleUpdates' = staleUpdates \cup Stale(r, {"imageStatus"})
                   /\ UNCHANGED <<isDrawing, previewImage>>
              ELSE /\ drawRuns' = [drawRuns EXCEPT ![k].loadedCount = loaded,
                                     ![k].at = "returned"]
                   /\ imageStatus' = painted.imageStatus
                   /\ isDrawing' = painted.isDrawing
                   /\ previewImage' = painted.previewImage
                   /\ staleUpdates' = staleUpdates
                         \cup Stale(r, {"imageStatus"} \cup painted.updated)
    /\ UNCHANGED <<pc, drawRest>>

\* the avatar load run k awaits at line 509 settles: the painting
AvatarSettled(k) ==
    /\ pc = "draw"
    /\ k \in 1 .. Len(drawRuns)
    /\ drawRuns[k].at = "loadAvatar"
    /\ LET r == drawRuns[k]
           painted == Paint(r, imageStatus)
       IN /\ drawRuns' = [drawRuns EXCEPT ![k].at = "returned"]
          /\ imageStatus' = painted.imageStatus
          /\ isDrawing' = painted.isDrawing
          /\ previewImage' = painted.previewImage
          /\ staleUpdates' = staleUpdates \cup Stale(r, painted.updated)
    /\ UNCHANGED <<pc, drawRest>>

\* handleSubmit with valid input (lines 758-785), before the navigation
HandleSubmit ==
    /\ pc = "draw"
    /\ drawRuns # <<>>
    /\ previewImage' = "null"
    /\ imageStatus' = <<"fetching", 0, 0>>
    /\ UNCHANGED <<drawRuns, isDrawing, staleUpdates>>
    /\ UNCHANGED <<pc, drawRest>>

\* handleDownload (lines 787-805); the button is disabled without games and
\* while isDrawing (line 964)
HandleDownload ==
    /\ pc = "draw"
    /\ drawRuns # <<>>
    /\ drawRuns[Len(drawRuns)].entries > 0
    /\ ~isDrawing
    /\ previewImage' = "dataUrl"
    /\ UNCHANGED <<drawRuns, imageStatus, isDrawing, staleUpdates>>
    /\ UNCHANGED <<pc, drawRest>>

DrawNext ==
    \/ Render
    \/ \E k \in 1 .. MaxRenders : ImageSettled(k)
    \/ \E k \in 1 .. MaxRenders : AvatarSettled(k)
    \/ HandleSubmit
    \/ HandleDownload

SpecDraw == DrawInit /\ [][DrawNext]_vars

\* every image load eventually settles
SpecDrawFair ==
    /\ SpecDraw
    /\ \A k \in 1 .. MaxRenders :
          WF_vars(ImageSettled(k)) /\ WF_vars(AvatarSettled(k))

----------------------------------------------------------------------------
(* Properties *)

\* the interiors of two rectangles intersect
InteriorsMeet(a, b) ==
    /\ Max(a.x, b.x) < Min(a.x + a.width, b.x + b.width)
    /\ Max(a.y, b.y) < Min(a.y + a.height, b.y + b.height)

PairwiseDisjoint(rects) ==
    \A i, j \in 1 .. Len(rects) : i < j => ~InteriorsMeet(rects[i], rects[j])

SharesEdge(a, b) ==
    \/ a.x + a.width = b.x /\ Max(a.y, b.y) < Min(a.y + a.height, b.y + b.height)
    \/ a.y + a.height = b.y /\ Max(a.x, b.x) < Min(a.x + a.width, b.x + b.width)

GameOf(e) == [appid |-> e.appid, name |-> e.name, playtime_forever |-> e.playtime_forever]

\* C1: in both layout versions, any two distinct rectangles of the returned
\* layoutGames have non-intersecting interiors (shared edges allowed)
NoOverlap == pc = "done" => PairwiseDisjoint(results)

\* C1 witness: a returned tiered layout of four tiles, two of them edge to edge
NoOverlapWitness ==
    /\ pc = "done"
    /\ variant = "tiered"
    /\ Len(results) >= 4
    /\ \E i, j \in 1 .. Len(results) : SharesEdge(results[i], results[j])

\* C2: in both layout versions every returned rectangle lies inside the
\* canvas calculateCanvasDimensions gives for the same game list
InBounds ==
    pc = "done" =>
        LET canvas == CalculateCanvasDimensions(Len(initialGames))
        IN \A i \in 1 .. Len(results) :
              /\ results[i].x >= 0
              /\ results[i].y >= 0
              /\ results[i].x + results[i].width <= canvas.width
              /\ results[i].y + results[i].height <= canvas.height

\* C2 witness: a returned layout with a tile that reaches the right edge of
\* the canvas and a tile that does not start at the left edge
InBoundsWitness ==
    /\ pc = "done"
    /\ \E i, j \in 1 .. Len(results) :
          /\ results[i].x + results[i].width = canvasDimensions.width
          /\ results[j].x > 0

\* the rectangle the tiered packer starts from
InitialFreeRect ==
    LET header == HeaderInfoHeight(canvasDimensions.height)
    IN Rect(0, header, canvasDimensions.width, Max(0, canvasDimensions.height - header))

\* C3: in the tiered packer, after every step of the primary pass and after
\* every fillRectWithShelf call, the free rectangles and the placed
\* rectangles are pairwise interior-disjoint and their areas add up to the
\* area of the initial free rectangle
TilingInv ==
    (variant = "tiered" /\ (pc \in {"primary", "fill"} \/ (pc = "done" /\ Len(initialGames) > 0))) =>
        LET all == freeRects \o results
        IN /\ PairwiseDisjoint(all)
           /\ SumSeq([i \in 1 .. Len(all) |-> Area(all[i])]) = Area(InitialFreeRect)

\* C3 witness: the fill-in pass has run over a packing of three tiles that
\* left three free rectangles
TilingWitness ==
    /\ variant = "tiered"
    /\ pc = "fill"
    /\ fillQueue = <<>>
    /\ Len(results) >= 3
    /\ Len(freeRects) >= 3

\* C4: when the tiered layout finishes, the placed items and the items left
\* in the overflow list (remainingAsc) are exactly the input games: each
\* input appid is in exactly one of the two groups, once, with the appid,
\* name and playtime of the input game
Conservation ==
    (variant = "tiered" /\ pc = "done") =>
        LET out == [i \in 1 .. Len(results) |-> GameOf(results[i])] \o
                   [i \in 1 .. Len(overflow) |-> overflow[i].game]
        IN /\ Len(out) = Len(initialGames)
           /\ \A k \in 1 .. Len(initialGames) :
                 Cardinality({i \in 1 .. Len(out) : out[i].appid = initialGames[k].appid}) = 1
           /\ \A k \in 1 .. Len(initialGames) :
                 \E i \in 1 .. Len(out) : out[i] = initialGames[k]

\* C4 witness: a finished tiered layout with placed and unplaced games, one
\* of the placed games having no playtime
ConservationWitness ==
    /\ variant = "tiered"
    /\ pc = "done"
    /\ Len(results) >= 2
    /\ Len(overflow) >= 1
    /\ \E i \in 1 .. Len(results) : results[i].playtime_forever = 0

\* C5: every game of initialGames appears in the returned layoutGames
AllGamesShown ==
    (variant = "tiered" /\ pc = "done") =>
        \A k \in 1 .. Len(initialGames) :
            \E i \in 1 .. Len(results) : results[i].appid = initialGames[k].appid

MonotonicSizing ==
    (variant = "tiered" /\ pc /= "start") =>
        \A i, j \in 1 .. Len(remainingDesc) :
            remainingDesc[i].game.playtime_forever < remainingDesc[j].game.playtime_forever =>
                /\ remainingDesc[i].mult <= remainingDesc[j].mult
                /\ remainingDesc[i].width * remainingDesc[i].height
                     <= remainingDesc[j].width * remainingDesc[j].height
                /\ remainingDesc[i].width * remainingDesc[i].height
                     = remainingDesc[i].mult * remainingDesc[i].mult * baseUnitWidth * baseUnitHeight

\* C7 witness: three games of three different tiers, and two games of
\* different playtime in the same tier
MonotonicSizingWitness ==
    /\ variant = "tiered"
    /\ pc = "primary"
    /\ \E i, j, k \in 1 .. Len(remainingDesc) :
          /\ remainingDesc[i].mult < remainingDesc[j].mult
          /\ remainingDesc[j].mult < remainingDesc[k].mult
    /\ \E i, j \in 1 .. Len(remainingDesc) :
          /\ remainingDesc[i].game.playtime_forever < remainingDesc[j].game.playtime_forever
          /\ remainingDesc[i].mult = remainingDesc[j].mult

\* C8: in both size models every sized item has width > 0 and height > 0,
\* for every playtime >= 0
PositiveSizes ==
    pc /= "start" =>
        \A i \in 1 .. Len(remainingDesc) :
            remainingDesc[i].width > 0 /\ remainingDesc[i].height > 0

\* the work a run of the tiered layout still has before it: the items the
\* primary pass has not handled (each may add one free rectangle), the free
\* rectangles the driver loop has yet to visit, and the return
Rank ==
    CASE pc = "start"   -> 2 * Len(initialGames) + 4
      [] pc = "primary" -> 2 * (Len(remainingDesc) + 1 - cursor) + Len(freeRects) + 2
      [] pc = "fill"    -> Len(fillQueue) + 1
      [] OTHER          -> 0

\* C9: the tiered layout terminates and returns a list: every step of a run
\* (an iteration of the primary pass, a fillRectWithShelf call) strictly
\* lowers a natural-number measure of the work left, an item that fits no
\* free rectangle is passed over, and what is returned is a list of at most
\* as many tiles as there are games
TieredTerminates ==
    [][(variant = "tiered" /\ pc /= "done") =>
          /\ Rank \in Nat
          /\ Rank' \in Nat
          /\ Rank' < Rank
          /\ (pc' = "done" => Len(results') <= Len(initialGames))]_vars

\* C9 witness: the tiered layout returned a list although an item fitted no
\* free rectangle; the item is missing from the list
TieredTerminatesWitness ==
    /\ variant = "tiered"
    /\ pc = "done"
    /\ Len(overflow) >= 1
    /\ Len(results) + Len(overflow) = Len(initialGames)
    /\ \A i \in 1 .. Len(results) : results[i].appid /= overflow[1].game.appid

\* C10: for an empty game list the layout returns the empty list and the
\* canvas is the default 1080 x 1920
EmptyList ==
    (Len(initialGames) = 0 /\ pc = "done") =>
        /\ results = <<>>
        /\ canvasDimensions = [width |-> 1080, height |-> 1920]
        /\ CalculateCanvasDimensions(0) = [width |-> 1080, height |-> 1920]

\* C10 witness: the hydration render of an empty list has returned
EmptyListWitness ==
    /\ initialGames = <<>>
    /\ pc = "done"
    /\ run = 2

\* C11: for every game count >= 0 calculateCanvasDimensions returns
\* integers with 1080 <= width <= 4320 and 1920 <= height <= 7680
CanvasWithinBounds ==
    pc = "canvasDone" =>
        /\ canvasResult.width \in Int
        /\ canvasResult.height \in Int
        /\ 1080 <= canvasResult.width /\ canvasResult.width <= 4320
        /\ 1920 <= canvasResult.height /\ canvasResult.height <= 7680

\* C11 witness: a count large enough for both upper clamps to act
CanvasWithinBoundsWitness ==
    /\ pc = "canvasDone"
    /\ canvasResult = [width |-> 4320, height |-> 7680]
    /\ CalculateCanvasDimensionsUnclamped(gameCountArg).width > 4320
    /\ CalculateCanvasDimensionsUnclamped(gameCountArg).height > 7680

\* C12: calculateCanvasDimensions is non-decreasing in the game count: from
\* a count n to any larger count m neither the width nor the height nor the
\* area gets smaller
CanvasMonotonic ==
    [][(pc = "canvasDone" /\ pc' = "canvasDone" /\ gameCountArg' > gameCountArg) =>
          /\ canvasResult.width <= canvasResult'.width
          /\ canvasResult.height <= canvasResult'.height
          /\ canvasResult.width * canvasResult.height
                <= canvasResult'.width * canvasResult'.height]_vars

\* C12 witness: the canvas of 50 games, larger than that of 5 games
CanvasMonotonicWitness ==
    /\ pc = "canvasDone"
    /\ gameCountArg = 50
    /\ LET five == CalculateCanvasDimensions(5)
       IN five.width * five.height < canvasResult.width * canvasResult.height

\* C13 as stated: for every game count >= 1 both the width and the height
\* are multiples of 100
CanvasOnGrid ==
    (pc = "canvasDone" /\ gameCountArg >= 1) =>
        /\ canvasResult.width % 100 = 0
        /\ canvasResult.height % 100 = 0

\* C13 as amended: for every game count >= 1 the width is a multiple of 100
\* or the upper clamp 4320, and the height is a multiple of 100 or one of
\* the clamps 1920 and 7680 (the rounding to the grid comes before the
\* clamping, and the clamps are not on the grid)
CanvasOnGridOrClamped ==
    (pc = "canvasDone" /\ gameCountArg >= 1) =>
        /\ canvasResult.width % 100 = 0 \/ canvasResult.width = 4320
        /\ canvasResult.height % 100 = 0 \/ canvasResult.height \in {1920, 7680}

\* C13 witness: a count whose canvas is on the grid in both dimensions, with
\* neither clamp acting
CanvasOnGridWitness ==
    /\ pc = "canvasDone"
    /\ gameCountArg >= 1
    /\ canvasResult.width % 100 = 0
    /\ canvasResult.height % 100 = 0
    /\ canvasResult.width > 1100
    /\ canvasResult.height < 7680

\* the largest playtime of a non-empty game list
MaxPlaytime(games) ==
    MaxSeq([i \in 1 .. Len(games) |-> games[i].playtime_forever], 0)

PlaytimeIn(list, appid) ==
    SumSeq([k \in 1 .. Len(list) |->
               IF list[k].appid = appid THEN list[k].playtime_forever ELSE 0])

\* the playtime of an appid summed over the accounts whose fetch succeeded
FulfilledPlaytime(appid) ==
    SumSeq([i \in 1 .. Len(settledResults) |->
               IF settledResults[i].status = "fulfilled"
               THEN PlaytimeIn(settledResults[i].value, appid) ELSE 0])

\* C15: after getServerSideProps has merged the per-account results the
\* appids of initialGames are pairwise distinct, they are the appids owned
\* by the accounts whose fetch succeeded, and the playtime_forever of each
\* is the sum of that appid's playtime over those accounts; a rejected
\* account adds a message to fetchErrors and nothing to the games
AggregatedById ==
    pc = "aggDone" =>
        /\ \A i, j \in 1 .. Len(initialGames) :
              i /= j => initialGames[i].appid /= initialGames[j].appid
        /\ \A i \in 1 .. Len(initialGames) :
              initialGames[i].playtime_forever = FulfilledPlaytime(initialGames[i].appid)
        /\ {initialGames[i].appid : i \in 1 .. Len(initialGames)}
              = {a \in {1, 2} : \E i \in 1 .. Len(settledResults) :
                    /\ settledResults[i].status = "fulfilled"
                    /\ \E k \in 1 .. Len(settledResults[i].value) :
                          settledResults[i].value[k].appid = a}
        /\ Len(fetchErrors)
              = Cardinality({i \in 1 .. Len(settledResults) :
                                settledResults[i].status = "rejected"})

\* C15 witness: three accounts, one rejected, the two others owning the same
\* game for 60 minutes each, merged into one entry of 120 minutes
AggregatedByIdWitness ==
    /\ pc = "aggDone"
    /\ Len(settledResults) = 3
    /\ settledResults[2].status = "rejected"
    /\ settledResults[1].status = "fulfilled"
    /\ settledResults[3].status = "fulfilled"
    /\ \E i \in 1 .. Len(initialGames) :
          /\ initialGames[i].playtime_forever = 120
          /\ PlaytimeIn(settledResults[1].value, initialGames[i].appid) = 60
          /\ PlaytimeIn(settledResults[3].value, initialGames[i].appid) = 60

\* an attempt that got a 2xx response with a body that parses
Succeeded(res) == res.kind = "response" /\ res.status = "200" /\ res.json = "valid"

\* C16: fetchJsonWithRetry makes at most retries + 1 fetch attempts; when it
\* rejects, no attempt succeeded and the error is that of the last attempt
\* made; when it resolves, the value is the JSON of a successful attempt,
\* which is the last attempt made
BoundedRetries ==
    /\ Len(fetchLog) <= Max(0, fetchRetries + 1)
    /\ fetchOutcome.state = "pending" =>
          \A i \in 1 .. Len(fetchLog) : ~Succeeded(fetchLog[i])
    /\ fetchOutcome.state = "rejected" =>
          /\ \A i \in 1 .. Len(fetchLog) : ~Succeeded(fetchLog[i])
          /\ Len(fetchLog) >= 1 =>
                /\ fetchOutcome.error.attempt = Len(fetchLog)
                /\ LET last == fetchLog[Len(fetchLog)]
                   IN fetchOutcome.error.message =
                         (IF last.kind = "failure" THEN last.message
                          ELSE IF last.status /= "200" THEN <<"HTTP", last.status>>
                          ELSE <<"Unexpected", "token">>)
    /\ fetchOutcome.state = "resolved" =>
          /\ Len(fetchLog) >= 1
          /\ Succeeded(fetchLog[Len(fetchLog)])
          /\ fetchOutcome.value = JsonOf(Len(fetchLog))
          /\ \A i \in 1 .. Len(fetchLog) - 1 : ~Succeeded(fetchLog[i])

\* C16 witness: with retries = 2, three attempts that all fail with a
\* transient error, and a rejection with the error of the third
BoundedRetriesWitness ==
    /\ pc = "fetchDone"
    /\ fetchRetries = 2
    /\ Len(fetchLog) = 3
    /\ fetchOutcome.state = "rejected"
    /\ fetchOutcome.error = [message |-> <<"connect", "ETIMEDOUT">>, attempt |-> 3]
    /\ fetchLog[1].message = <<"read", "ECONNRESET">>

\* the indices of the free rectangles at least w wide and h high
Eligible(free, w, h) ==
    {i \in 1 .. Len(free) : free[i].width >= w /\ free[i].height >= h}

\* C17: in the primary pass of the tiered packer the item at its turn is
\* pushed to overflow if and only if no rectangle of freeRects is at least
\* as wide and as high as the item, and then nothing is placed; otherwise a
\* tile of the item's size is placed at the top-left corner of an eligible
\* free rectangle, and that rectangle is no longer in freeRects
PrimaryPassDefers ==
    [][(pc = "primary" /\ variant = "tiered" /\ cursor' = cursor + 1) =>
          LET it == remainingDesc[cursor]
              eligible == Eligible(freeRects, it.width, it.height)
          IN /\ (overflow' = Append(overflow, it)) <=> (eligible = {})
             /\ (overflow' = overflow) <=> (eligible /= {})
             /\ eligible = {} => (results' = results /\ freeRects' = freeRects)
             /\ eligible /= {} =>
                   \E i \in eligible :
                      /\ results' = Append(results,
                            LayoutGame(it.game, Rect(freeRects[i].x, freeRects[i].y,
                                                     it.width, it.height)))
                      /\ \A k \in 1 .. Len(freeRects') : freeRects'[k] /= freeRects[i]]_vars

\* C17 witness: the primary pass has placed a tile and deferred an item, and
\* the item at its turn has an eligible free rectangle
PrimaryPassWitness ==
    /\ pc = "primary"
    /\ variant = "tiered"
    /\ Len(results) >= 1
    /\ Len(overflow) >= 1
    /\ cursor <= Len(remainingDesc)
    /\ Eligible(freeRects, remainingDesc[cursor].width, remainingDesc[cursor].height) /= {}

\* the item at its turn in the scan of either packer
AtTurn == pc = "primary" /\ cursor <= Len(remainingDesc)

\* the index of the free rectangle the packer of the running version
\* selects for the item at its turn (0: none)
Selected ==
    IF variant = "tiered"
    THEN ChooseBestRect(freeRects, remainingDesc[cursor].width,
                        remainingDesc[cursor].height, canvasDimensions.width)
    ELSE BestAreaFit(freeRects, remainingDesc[cursor].width, remainingDesc[cursor].height)

\* free rectangle a comes before b in the order "smaller y, then smaller x"
UpperLeftOf(a, b) == a.y < b.y \/ (a.y = b.y /\ a.x <= b.x)

UpperThenLeft ==
    (AtTurn /\ variant = "tiered") =>
        LET it == remainingDesc[cursor]
            eligible == Eligible(freeRects, it.width, it.height)
            noExactMatch == \A i \in eligible :
                               freeRects[i].width /= it.width /\ freeRects[i].height /= it.height
            best == ChooseBestRect(freeRects, it.width, it.height, canvasDimensions.width)
        IN /\ \A i \in 1 .. Len(freeRects) :
                 0 <= freeRects[i].x /\ freeRects[i].x < canvasDimensions.width
           /\ (eligible /= {} /\ noExactMatch) =>
                 /\ best \in eligible
                 /\ \A j \in eligible : UpperLeftOf(freeRects[best], freeRects[j])

\* C19 witness: an item with several eligible free rectangles, none an exact
\* match, the one returned lying higher and further right than another
UpperThenLeftWitness ==
    /\ AtTurn
    /\ variant = "tiered"
    /\ LET it == remainingDesc[cursor]
           eligible == Eligible(freeRects, it.width, it.height)
           best == ChooseBestRect(freeRects, it.width, it.height, canvasDimensions.width)
       IN /\ Cardinality(eligible) >= 2
          /\ \A i \in eligible :
                freeRects[i].width /= it.width /\ freeRects[i].height /= it.height
          /\ \E j \in eligible :
                freeRects[j].x < freeRects[best].x /\ freeRects[j].y > freeRects[best].y

\* C20 as stated: in both packers every rectangle in freeRects has
\* width > 0 and height > 0
NoEmptyFreeRect ==
    \A i \in 1 .. Len(freeRects) :
        freeRects[i].width > 0 /\ freeRects[i].height > 0

FillInPlacesNothing ==
    [][(variant = "tiered" /\ pc = "fill") =>
          /\ \A o \in 1 .. Len(overflow) : \A f \in 1 .. Len(freeRects) :
                ~(overflow[o].width <= freeRects[f].width
                  /\ overflow[o].height <= freeRects[f].height)
          /\ results' = results
          /\ overflow' = overflow]_vars

\* C22 witness: the fill-in pass has run to its end with items in the
\* overflow list and a free rectangle high enough for its loop to be entered
FillInWitness ==
    /\ variant = "tiered"
    /\ pc = "done"
    /\ Len(overflow) >= 2
    /\ Len(results) >= 2
    /\ \E f \in 1 .. Len(freeRects) : freeRects[f].height >= baseUnitHeight

\* C23: every tier multiplier is an integer in 1..8; a playtime below 600
\* minutes gets multiplier 1 and a playtime of at least 600 minutes a
\* multiplier >= 2; a playtime that is the maximum of the list and at least
\* 600 minutes gets multiplier 8
TierRange ==
    pc = "tierDone" =>
        /\ tierMult \in 1 .. 8
        /\ tierPlaytime < 600 => tierMult = 1
        /\ tierPlaytime >= 600 => tierMult >= 2
        /\ (tierPlaytime = tierListMax /\ tierPlaytime >= 600) => tierMult = 8

\* C23 witness: ten hours in a list whose longest game has forty times as
\* much: the square root rule gives 1 and the ten hour rule lifts it to 2
TierRangeWitness ==
    /\ pc = "tierDone"
    /\ tierPlaytime = 600
    /\ tierListMax = 24000
    /\ tierMult = 2

\* C24: whatever the jitter values rnd in [0,1], remainingDesc holds the
\* prepared items in non-increasing order of tier multiplier: no item comes
\* before an item of a strictly larger multiplier
JitterKeepsTiers ==
    pc = "jitterDone" =>
        /\ Len(jitterOrder) = Len(jitterItems)
        /\ \A it \in JitterItems :
              Cardinality({i \in 1 .. Len(jitterOrder) : jitterOrder[i] = it})
                 = Cardinality({i \in 1 .. Len(jitterItems) : jitterItems[i] = it})
        /\ \A i, j \in 1 .. Len(jitterOrder) :
              i < j => jitterOrder[i].mult >= jitterOrder[j].mult

\* C24 witness: two items of one tier exchanged by the jitter, behind an
\* item of the next tier that has the largest jitter
JitterKeepsTiersWitness ==
    /\ pc = "jitterDone"
    /\ jitterItems = <<[mult |-> 2, rnd |-> 1000000], [mult |-> 2, rnd |-> 0],
                       [mult |-> 3, rnd |-> 1000000]>>
    /\ jitterOrder = <<[mult |-> 3, rnd |-> 1000000], [mult |-> 2, rnd |-> 0],
                       [mult |-> 2, rnd |-> 1000000]>>

\* C25: for every non-empty game list the first item of the primary pass,
\* of the maximal tier, fits the initial free rectangle: maxMult x
\* baseUnitWidth <= canvas width and maxMult x baseUnitHeight <= canvas
\* height less the header height, so chooseBestRect returns the initial
\* free rectangle and the item is placed
FirstItemFits ==
    pc = "unitDone" =>
        LET canvas == CalculateCanvasDimensions(unitGameCount)
        IN /\ unitSize.width >= 1
           /\ unitSize.height >= 1
           /\ unitMaxMult * unitSize.width <= canvas.width
           /\ unitMaxMult * unitSize.height
                 <= canvas.height - HeaderInfoHeight(canvas.height)
           /\ unitTarget = 1

\* C25 witness: a list with one game of tier 8 whose base unit had to be
\* scaled down to make eight units fit the canvas width
FirstItemFitsWitness ==
    /\ pc = "unitDone"
    /\ unitMaxMult = 8
    /\ unitGameCount >= 2
    /\ LET canvas == CalculateCanvasDimensions(unitGameCount)
       IN /\ 2 * 64 * canvas.height > 3 * unitTotalUnits * canvas.width
          /\ 8 * unitSize.width <= canvas.width
          /\ 9 * unitSize.width > canvas.width
    /\ unitTarget = 1

\* C26: no tile of the tiered layout covers the header band: every returned
\* rectangle has y >= headerInfoHeight, headerInfoHeight lies in 60..100,
\* and it is the height of the header bar the renderer paints
TilesBelowHeader ==
    (pc = "done" /\ variant = "tiered") =>
        LET header == HeaderInfoHeight(canvasDimensions.height)
        IN /\ 60 <= header /\ header <= 100
           /\ header = HeaderBarHeight(canvasDimensions.height)
           /\ \A i \in 1 .. Len(results) :
                 /\ results[i].y >= header
                 /\ results[i].y >= HeaderBarHeight(canvasDimensions.height)

\* C26 witness: a returned tiered layout with a tile right under the header
\* bar and a tile further down
TilesBelowHeaderWitness ==
    /\ pc = "done"
    /\ variant = "tiered"
    /\ \E i, j \in 1 .. Len(results) :
          /\ results[i].y = HeaderBarHeight(canvasDimensions.height)
          /\ results[j].y > results[i].y
          /\ results[j].x = results[i].x

\* an attempt that failed with an error whose message names a transient
\* network condition
FailedTransiently(res) ==
    /\ res.kind = "failure"
    /\ \E i \in 1 .. Len(res.message) :
          res.message[i] \in {"AbortError", "ECONNRESET", "ETIMEDOUT", "ENOTFOUND",
                              "network", "NetworkError"}

ProbesCapped ==
    /\ issued <= Min(Min(50, probeGames) * probeAccounts, 200)
    /\ lastBatch <= 6

\* C29 as stated: once a run of the draw effect has been cancelled, it makes
\* no further update to imageStatus, isDrawing or previewImage
NoUpdateAfterCancel == staleUpdates = {}

\* C30 as stated: whenever isDrawing has been set to true, it eventually
\* becomes false again, provided every image load eventually settles
DrawingEnds == isDrawing ~> ~isDrawing

====
